---- MODULE Spec2Model ----
(***************************************************************************)
(* librank: dense ranking of an iterator's items by a key (src/src/rank.rs) *)
(*                                                                         *)
(* rank_by materialises the source into a Vec, sorts it by key with the    *)
(* stable sort_by_key, and returns a RankedBy iterator whose next() tags   *)
(* every item with a dense, 1-based Rank.                                  *)
(***************************************************************************)
EXTENDS Integers, Sequences, FiniteSets

\* Longest source sequence explored.
MaxLen == 4

\* Item payloads are drawn from 1..MaxVal.
MaxVal == 3

Values == 1..MaxVal

\* The key-extraction closures F explored for rank_by's parameter f.
KeyFns == {"identity", "negate", "halve", "constant"}

\* Option<T>
None == [some |-> FALSE]

Some(x) == [some |-> TRUE, val |-> x]

\* (self.f)(&item): the key the closure extracts from an item.
KeyOf(fn, item) ==
    CASE fn = "identity" -> item.value
      [] fn = "negate"   -> 0 - item.value
      [] fn = "halve"    -> item.value \div 2
      [] fn = "constant" -> 0

VARIABLES
    input,      \* the items the caller's iterator will yield, in order
    source,     \* `self` in rank_by: the items the source has not yielded yet
    pulls,      \* number of calls made to the source's next()
    pc,         \* position inside rank_by, "ranked" once RankedBy is returned
    v,          \* the Vec of rank_by
    iter,       \* RankedBy.iter: the items v.into_iter() has not yielded yet
    f,          \* RankedBy.f
    rank,       \* RankedBy.rank
    prev_key,   \* RankedBy.prev_key
    out,        \* the (Rank, Item) pairs next() has returned, in order
    exhausted   \* next() has returned None

vars == <<input, source, pulls, pc, v, iter, f, rank, prev_key, out, exhausted>>

\* The sequences of at most MaxLen items; an item carries its position in
\* the source as its identity, next to its payload.
Inputs ==
    UNION { { [i \in 1..n |-> [id |-> i, value |-> vals[i]]] :
                vals \in [1..n -> Values] } : n \in 0..MaxLen }

----------------------------------------------------------------------------
\* Vec::sort_by_key: a stable sort, by insertion of each element after every
\* element whose key is not greater.

RECURSIVE InsertByKey_Unstable(_, _, _)
InsertByKey_Unstable(x, s, fn) ==
    IF s = <<>> THEN <<x>>
    ELSE IF KeyOf(fn, x) <= KeyOf(fn, Head(s)) THEN <<x>> \o s
    ELSE <<Head(s)>> \o InsertByKey_Unstable(x, Tail(s), fn)

RECURSIVE InsertByKey_Dedup(_, _, _)
InsertByKey_Dedup(x, s, fn) ==
    IF s = <<>> THEN <<x>>
    ELSE IF KeyOf(fn, x) = KeyOf(fn, Head(s)) THEN s
    ELSE IF KeyOf(fn, x) < KeyOf(fn, Head(s)) THEN <<x>> \o s
    ELSE <<Head(s)>> \o InsertByKey_Dedup(x, Tail(s), fn)

RECURSIVE InsertByKey_Descending(_, _, _)
InsertByKey_Descending(x, s, fn) ==
    IF s = <<>> THEN <<x>>
    ELSE IF KeyOf(fn, x) > KeyOf(fn, Head(s)) THEN <<x>> \o s
    ELSE <<Head(s)>> \o InsertByKey_Descending(x, Tail(s), fn)

RECURSIVE InsertByKey(_, _, _)
InsertByKey(x, s, fn) ==
    IF s = <<>> THEN <<x>>
    ELSE IF KeyOf(fn, x) < KeyOf(fn, Head(s)) THEN <<x>> \o s
    ELSE <<Head(s)>> \o InsertByKey(x, Tail(s), fn)

SortByKey_Unsorted(s, fn) == s

RECURSIVE SortByKey(_, _)
SortByKey(s, fn) ==
    IF s = <<>> THEN <<>>
    ELSE InsertByKey(s[Len(s)], SortByKey(SubSeq(s, 1, Len(s) - 1), fn), fn)

----------------------------------------------------------------------------
\* RankedBy::next helpers

KeyChanged_Always(pk, key) == TRUE

\* self.prev_key.as_ref() != Some(&key)
KeyChanged(pk, key) == pk # Some(key)

NextRank_Skip(r) == r + 2

\* Rank(self.rank.0 + 1)
NextRank(r) == r + 1

----------------------------------------------------------------------------
Init ==
    /\ input \in Inputs
    /\ f \in KeyFns
    /\ source = input
    /\ pulls = 0
    /\ pc = "from_iter"
    /\ v = <<>>
    /\ iter = <<>>
    /\ rank = 0
    /\ prev_key = None
    /\ out = <<>>
    /\ exhausted = FALSE

from_iter_Partial ==
    /\ pc = "from_iter"
    /\ pulls' = pulls + 1
    /\ IF source = <<>>
       THEN /\ pc' = "sort"
            /\ UNCHANGED <<source, v>>
       ELSE /\ v' = Append(v, Head(source))
            /\ source' = Tail(source)
            /\ pc' = "sort"
    /\ UNCHANGED <<input, iter, f, rank, prev_key, out, exhausted>>

\* Vec::from_iter(self): one call of the source's next(); the loop ends when
\* the source returns None.
from_iter ==
    /\ pc = "from_iter"
    /\ pulls' = pulls + 1
    /\ IF source = <<>>
       THEN /\ pc' = "sort"
            /\ UNCHANGED <<source, v>>
       ELSE /\ v' = Append(v, Head(source))
            /\ source' = Tail(source)
            /\ pc' = pc
    /\ UNCHANGED <<input, iter, f, rank, prev_key, out, exhausted>>

\* v.sort_by_key(&mut f)
sort_by_key ==
    /\ pc = "sort"
    /\ v' = SortByKey(v, f)
    /\ pc' = "construct"
    /\ UNCHANGED <<input, source, pulls, iter, f, rank, prev_key, out, exhausted>>

RankedByNew_RankOne ==
    /\ pc = "construct"
    /\ iter' = v
    /\ v' = <<>>
    /\ rank' = 1
    /\ prev_key' = None
    /\ pc' = "ranked"
    /\ UNCHANGED <<input, source, pulls, f, out, exhausted>>

\* RankedBy { iter: v.into_iter(), f, rank: Rank(0), prev_key: None }
RankedByNew ==
    /\ pc = "construct"
    /\ iter' = v
    /\ v' = <<>>
    /\ rank' = 0
    /\ prev_key' = None
    /\ pc' = "ranked"
    /\ UNCHANGED <<input, source, pulls, f, out, exhausted>>

rank_by == from_iter \/ sort_by_key \/ RankedByNew

next_EmitStale ==
    /\ pc = "ranked"
    /\ IF iter = <<>>
       THEN /\ exhausted' = TRUE
            /\ UNCHANGED <<iter, rank, prev_key, out>>
       ELSE LET item == Head(iter)
                key  == KeyOf(f, item)
            IN  /\ iter' = Tail(iter)
                /\ IF KeyChanged(prev_key, key)
                   THEN /\ rank' = NextRank(rank)
                        /\ prev_key' = Some(key)
                   ELSE UNCHANGED <<rank, prev_key>>
                /\ out' = Append(out, <<rank, item>>)
                /\ UNCHANGED exhausted
    /\ UNCHANGED <<input, source, pulls, pc, v, f>>

next_NoPrevUpdate ==
    /\ pc = "ranked"
    /\ IF iter = <<>>
       THEN /\ exhausted' = TRUE
            /\ UNCHANGED <<iter, rank, prev_key, out>>
       ELSE LET item == Head(iter)
                key  == KeyOf(f, item)
            IN  /\ iter' = Tail(iter)
                /\ IF KeyChanged(prev_key, key)
                   THEN /\ rank' = NextRank(rank)
                        /\ UNCHANGED prev_key
                   ELSE UNCHANGED <<rank, prev_key>>
                /\ out' = Append(out, <<rank', item>>)
                /\ UNCHANGED exhausted
    /\ UNCHANGED <<input, source, pulls, pc, v, f>>

\* RankedBy::next
next ==
    /\ pc = "ranked"
    /\ IF iter = <<>>
       THEN /\ exhausted' = TRUE
            /\ UNCHANGED <<iter, rank, prev_key, out>>
       ELSE LET item == Head(iter)
                key  == KeyOf(f, item)
            IN  /\ iter' = Tail(iter)
                /\ IF KeyChanged(prev_key, key)
                   THEN /\ rank' = NextRank(rank)
                        /\ prev_key' = Some(key)
                   ELSE UNCHANGED <<rank, prev_key>>
                /\ out' = Append(out, <<rank', item>>)
                /\ UNCHANGED exhausted
    /\ UNCHANGED <<input, source, pulls, pc, v, f>>

Next == rank_by \/ next

Spec == Init /\ [][Next]_vars

----------------------------------------------------------------------------
\* Vocabulary of the properties

RankAt(i) == out[i][1]

ItemAt(i) == out[i][2]

KeyAt(i) == KeyOf(f, ItemAt(i))

OutIdx == 1..Len(out)

InputKeys == { KeyOf(f, input[i]) : i \in 1..Len(input) }

OutRanks == { RankAt(i) : i \in OutIdx }

TypeOK ==
    /\ input \in Inputs
    /\ f \in KeyFns
    /\ pc \in {"from_iter", "sort", "construct", "ranked"}
    /\ pulls \in 0..(MaxLen + 1)
    /\ rank \in 0..MaxLen
    /\ exhausted \in BOOLEAN

----------------------------------------------------------------------------
\* C1: any two items of the output carry the same rank if and only if their
\* keys are equal, for all pairs of output positions.
C1_GroupingCorrect ==
    \A i, j \in OutIdx : (RankAt(i) = RankAt(j)) <=> (KeyAt(i) = KeyAt(j))

\* A fully consumed output of a source where two items of equal key are
\* separated by an item of another key.
C1_Witness ==
    /\ exhausted
    /\ \E a, b, c \in 1..Len(input) :
          /\ a < b /\ b < c
          /\ KeyOf(f, input[a]) = KeyOf(f, input[c])
          /\ KeyOf(f, input[a]) # KeyOf(f, input[b])
    /\ \E i, j \in OutIdx : i # j /\ RankAt(i) = RankAt(j)
    /\ \E i, j \in OutIdx : RankAt(i) # RankAt(j)

\* C2: the ranks of the fully consumed output of a non-empty source are
\* exactly 1..D, D the number of distinct keys of the source.
C2_Dense ==
    (exhausted /\ input # <<>>) => OutRanks = 1..Cardinality(InputKeys)

\* Fully consumed, with several distinct keys and a repeated key.
C2_Witness ==
    /\ exhausted
    /\ Cardinality(InputKeys) >= 2
    /\ Cardinality(InputKeys) < Len(input)
    /\ OutRanks = 1..Cardinality(InputKeys)

\* C3: the output is in non-decreasing key order, whatever the order of the
\* source.
C3_SortedByKey ==
    \A i, j \in OutIdx : i < j => KeyAt(i) <= KeyAt(j)

\* Fully consumed output of a source that was not in key order.
C3_Witness ==
    /\ exhausted
    /\ Len(out) >= 3
    /\ \E a, b \in 1..Len(input) :
          a < b /\ KeyOf(f, input[a]) > KeyOf(f, input[b])

\* C4: stability: of two source items with equal keys, the one that comes
\* first in the source is emitted first.
C4_Stable ==
    \A a, b \in 1..Len(input) :
        (a < b /\ KeyOf(f, input[a]) = KeyOf(f, input[b])) =>
            \A q \in OutIdx :
                ItemAt(q) = input[b] =>
                    \E p \in 1..(q - 1) : ItemAt(p) = input[a]

\* Fully consumed; two items of equal key had an item of a smaller key
\* after them and one of another key between them, so the sort moved them.
C4_Witness ==
    /\ exhausted
    /\ \E a, b, c \in 1..Len(input) :
          /\ a < b /\ b < c
          /\ KeyOf(f, input[a]) = KeyOf(f, input[b])
          /\ KeyOf(f, input[c]) < KeyOf(f, input[a])
    /\ \E a, b, c \in 1..Len(input) :
          /\ a < b /\ b < c
          /\ KeyOf(f, input[a]) = KeyOf(f, input[c])
          /\ KeyOf(f, input[b]) # KeyOf(f, input[a])

\* C5: the fully consumed output has the length of the source and its items
\* are a permutation of the source's items: each is emitted exactly once,
\* unchanged, and nothing else is emitted.
C5_Permutation ==
    /\ \A p \in OutIdx : \E a \in 1..Len(input) : ItemAt(p) = input[a]
    /\ \A p, q \in OutIdx : ItemAt(p) = ItemAt(q) => p = q
    /\ exhausted =>
          /\ Len(out) = Len(input)
          /\ \A a \in 1..Len(input) :
                Cardinality({ p \in OutIdx : ItemAt(p) = input[a] }) = 1

\* Fully consumed output of a source of at least three items in which a
\* payload repeats and the order is not the key order.
C5_Witness ==
    /\ exhausted
    /\ Len(input) >= 3
    /\ \E a, b \in 1..Len(input) : a # b /\ input[a].value = input[b].value
    /\ \E a, b \in 1..Len(input) :
          a < b /\ KeyOf(f, input[a]) > KeyOf(f, input[b])

EmittedRanksOK ==
    /\ \A i \in OutIdx : RankAt(i) >= 1
    /\ \A i, j \in OutIdx : i < j => RankAt(i) <= RankAt(j)

\* C6: after any number of calls to next, every rank emitted so far is >= 1,
\* the emitted ranks are non-decreasing in emission order, and the rank
\* counter never decreases.
C6_RankMonotone ==
    /\ []EmittedRanksOK
    /\ [][rank' >= rank]_vars

\* Three emissions in which the rank both repeated and grew.
C6_Witness ==
    /\ Len(out) >= 3
    /\ \E i \in 1..(Len(out) - 1) : RankAt(i) = RankAt(i + 1)
    /\ \E i \in 1..(Len(out) - 1) : RankAt(i) < RankAt(i + 1)
    /\ rank = RankAt(Len(out))

\* C7: when the N source items have pairwise distinct keys, the output
\* carries the ranks 1, 2, ..., N in that order on the items in ascending
\* key order.
C7_DistinctKeysOrdinal ==
    (Cardinality(InputKeys) = Len(input)) =>
        /\ \A i \in OutIdx : RankAt(i) = i
        /\ \A i, j \in OutIdx : i < j => KeyAt(i) < KeyAt(j)
        /\ exhausted => Len(out) = Len(input)

\* Fully consumed output of three or more items of distinct keys whose
\* source order was neither ascending nor descending.
C7_Witness ==
    /\ exhausted
    /\ Len(input) >= 3
    /\ Cardinality(InputKeys) = Len(input)
    /\ \E a \in 1..(Len(input) - 1) :
          KeyOf(f, input[a]) < KeyOf(f, input[a + 1])
    /\ \E a \in 1..(Len(input) - 1) :
          KeyOf(f, input[a]) > KeyOf(f, input[a + 1])
    /\ RankAt(Len(out)) = Len(input)

EmptyUntouched ==
    input = <<>> => (out = <<>> /\ rank = 0 /\ prev_key = None)

\* C8: ranking an empty sequence yields an empty sequence: the first call to
\* next returns None, the rank counter stays 0 and the previous-key slot
\* stays None.
C8_EmptyInput ==
    /\ []EmptyUntouched
    /\ [][(input = <<>> /\ pc = "ranked" /\ ~exhausted) =>
            (exhausted' /\ out' = <<>>)]_vars

\* next has been called on the ranking of an empty source.
C8_Witness ==
    input = <<>> /\ pc = "ranked" /\ exhausted

IsSortedByKey(s) ==
    \A i, j \in 1..Len(s) : i < j => KeyOf(f, s[i]) <= KeyOf(f, s[j])

RankingStarted ==
    out # <<>> \/ exhausted \/ rank # 0 \/ prev_key # None

\* Every source item was pulled, the source reported its end, and what
\* next() has yielded and has yet to yield is the whole source in key order.
Materialised ==
    /\ pc = "ranked"
    /\ source = <<>>
    /\ pulls = Len(input) + 1
    /\ Len(out) + Len(iter) = Len(input)
    /\ IsSortedByKey([i \in 1..(Len(out) + Len(iter)) |->
            IF i <= Len(out) THEN ItemAt(i) ELSE iter[i - Len(out)]])

\* C9: the source is consumed once and in full, and the sort is complete,
\* before any rank is computed or any pair is emitted; no call to next on
\* the returned iterator pulls from the source.
C9_MaterialiseBeforeRank ==
    /\ [](RankingStarted => Materialised)
    /\ [][pc = "ranked" => (source' = source /\ pulls' = pulls)]_vars

\* The first pair has just been emitted from a source of several items
\* that were not in key order.
C9_Witness ==
    /\ Len(out) = 1
    /\ Len(input) >= 3
    /\ Materialised
    /\ \E a, b \in 1..Len(input) :
          a < b /\ KeyOf(f, input[a]) > KeyOf(f, input[b])

\* The rule one emission obeys: `out` grew by one pair.
ScanStep ==
    LET n    == Len(out)
        pair == out'[n + 1]
        key  == KeyOf(f, pair[2])
    IN  IF n = 0
        THEN /\ pair[1] = 1
             /\ rank' = 1
             /\ prev_key' = Some(key)
        ELSE IF key = KeyAt(n)
             THEN /\ pair[1] = RankAt(n)
                  /\ rank' = rank
                  /\ prev_key' = prev_key
             ELSE /\ pair[1] = RankAt(n) + 1
                  /\ rank' = rank + 1
                  /\ prev_key' = Some(key)

\* C10: the first item emitted receives rank 1; a later item receives the
\* rank of the item before it when their keys are equal and that rank plus
\* one otherwise; the rank counter and the previous-key slot change only in
\* the latter case and on the first item.
C10_ScanStepRule ==
    [][IF Len(out') = Len(out) + 1
       THEN ScanStep
       ELSE rank' = rank /\ prev_key' = prev_key]_vars

\* Emissions of all three kinds have happened: a first item, an item of the
\* same key as the one before it, and an item of a new key.
C10_Witness ==
    /\ Len(out) >= 3
    /\ \E i \in 1..(Len(out) - 1) :
          KeyAt(i) = KeyAt(i + 1) /\ RankAt(i) = RankAt(i + 1)
    /\ \E i \in 1..(Len(out) - 1) :
          KeyAt(i) # KeyAt(i + 1) /\ RankAt(i + 1) = RankAt(i) + 1
    /\ prev_key = Some(KeyAt(Len(out)))

====
